---------------------------- MODULE Spec2Model ----------------------------
(***************************************************************************)
(* A model of home_library (src/home_library/app.py): the start-up schema  *)
(* migration init_db_and_migrate, the ISBN metadata resolver               *)
(* fetch_book_metadata_by_isbn and the catalog handlers (index, add, book, *)
(* edit, scan, scan_auto_add) over one SQLite store.                       *)
(*                                                                         *)
(* Text is a sequence of one-character strings, so that str.strip(),       *)
(* str.replace("-", "") and LIKE are computed and not assumed.  SQL NULL   *)
(* in a text column is the value NULL below; in an integer column it is    *)
(* NullId.  Row ids are AUTOINCREMENT and no handler deletes a row, so a   *)
(* table is a sequence and a row's id is its index.                        *)
(***************************************************************************)
EXTENDS Integers, Sequences, FiniteSets, TLC

VARIABLES
  tables,     \* names of the tables present in the store (sqlite_master)
  bookCols,   \* names of the columns of table books (PRAGMA table_info)
  indexes,    \* names of the indexes present on book_locations
  users,      \* table users: users[i] is the username of the user with id i
  books,      \* table books: books[i] is the row with id i
  locs,       \* table book_locations: locs[i] is the row with id i
  mig,        \* the migration run: [pc, k, run], run = number of runs ended
  start,      \* the store as it was before the first migration run
  snap,       \* the store as the first migration run left it (NoSnap before)
  res,        \* the last call of the resolver: its argument, the providers'
              \* behaviour during it, what it returned and what it requested
  clock,      \* the store's CURRENT_TIMESTAMP, in seconds
  writes,     \* how many requests that write to the store were taken
  last,       \* the request being answered and its response
  txn,        \* the write transaction open on the store: whose it is and
              \* the books and book_locations it will commit (NoTxn if none)
  conn        \* the edit requests served side by side: conn[p] is where
              \* request p stands and what it has read

vars ==
  <<tables, bookCols, indexes, users, books, locs, mig, start, snap, res,
    clock, writes, last, txn, conn>>

-----------------------------------------------------------------------------
(* Bounds of the model.                                                    *)

\* At most this many requests write to the catalog (insert or update a
\* Book); requests that only read are not counted.
MaxWrites == 2
\* A Provider A record references at most this many authors.
MaxAuthors == 2
\* At most this many of the thirteen books columns are missing at start.
MaxMissingCols == 2
\* At most this many legacy rows are in books when the migration starts.
MaxLegacyBooks == 2
\* The migration is started this many times in a row.
MaxRuns == 2

-----------------------------------------------------------------------------
(* Text.                                                                   *)

NULL == <<"NULL">>
NullId == 0

\* str.strip(): surrounding whitespace removed.
RECURSIVE LStrip(_)
LStrip(s) ==
  IF s = <<>> THEN s
  ELSE IF Head(s) = " " THEN LStrip(Tail(s)) ELSE s

RECURSIVE RStrip(_)
RStrip(s) ==
  IF s = <<>> THEN s
  ELSE IF s[Len(s)] = " " THEN RStrip(SubSeq(s, 1, Len(s) - 1)) ELSE s

Strip(s) == RStrip(LStrip(s))

\* str.replace("-", "")
RemoveHyphens(s) == SelectSeq(s, LAMBDA c : c # "-")

\* Python's `x or None` on a str: the empty string is stored as NULL.
OrNull(s) == IF s = <<>> THEN NULL ELSE s

\* Python's `(x or "")` on a column value: NULL reads as the empty string.
OrEmpty(v) == IF v = NULL THEN <<>> ELSE v

-----------------------------------------------------------------------------
(* The schema init_db_and_migrate is written for.                          *)

RequiredTables == {"users", "books", "book_locations"}

\* The columns of CREATE TABLE books (lines 78-94), id apart.
RequiredBookCols ==
  {"user_id", "isbn", "title", "authors", "tags", "location", "notes",
   "status", "cover_url", "source", "meta_json", "created_at", "updated_at"}

RequiredIndexes == {"idx_book_locations_book", "idx_book_locations_user"}

\* The columns the migration adds to an existing books table, in the order
\* of lines 100-119.
MigratedCols ==
  <<"user_id", "status", "cover_url", "source", "meta_json",
    "created_at", "updated_at">>

\* The ALTER TABLE statements of lines 117 and 119 give the new column the
\* default CURRENT_TIMESTAMP.
HasTimestampDefault(c) == c \in {"created_at", "updated_at"}

Unread == <<"U">>

\* A legacy row of books: only its owner matters to the migration.
LegacyBook(uid) ==
  [user_id |-> uid, isbn |-> NULL, title |-> <<"T">>, authors |-> NULL,
   tags |-> NULL, location |-> NULL, notes |-> NULL, status |-> NULL,
   cover_url |-> NULL, source |-> NULL, meta_json |-> NULL,
   updated_at |-> 0]

-----------------------------------------------------------------------------
(* The Metadata Resolver, fetch_book_metadata_by_isbn, lines 482-547.      *)
(*                                                                         *)
(* The providers' behaviour during one call is env: the one ISBN they      *)
(* know and what each answers for it.  For any other ISBN OpenLibrary      *)
(* answers 404 (urlopen raises) and Google Books answers without items.    *)
(* A response of kind "error" is any exception _http_get_json or the code  *)
(* reading its result raises: network, timeout, HTTP status, a body that   *)
(* is not JSON or not shaped as the code reads it.                         *)

HttpError == [kind |-> "error"]

SrcOpenLibrary == <<"openlibrary">>
SrcGoogleBooks == <<"googlebooks">>

\* What the resolver returns instead of a record (Python's None).
NoMeta == [source |-> <<"none">>]

NoCall == [called |-> FALSE]

\* A normalisation that trims before it removes the hyphens.
NormalizeStripFirst(s) == RemoveHyphens(Strip(s))

\* isbn.replace("-", "").strip(), line 487.
Normalize(s) == Strip(RemoveHyphens(s))

\* ", ".join(names), lines 515 and 539.
RECURSIVE Join(_)
Join(names) ==
  IF names = <<>> THEN <<>>
  ELSE IF Len(names) = 1 THEN Head(names)
  ELSE Head(names) \o <<",", " ">> \o Join(Tail(names))

\* _http_get_json(ol_url), line 494.
OLLookup(env, isbn) == IF isbn = env.isbn THEN env.ol ELSE HttpError

\* _http_get_json(gb_url), line 526.
GBLookup(env, isbn) ==
  IF isbn = env.isbn THEN env.gb ELSE [kind |-> "ok", items |-> <<>>]

\* An author loop that gives up at the first lookup that fails.
RECURSIVE AuthorNamesUntilFailure(_)
AuthorNamesUntilFailure(as) ==
  IF as = <<>> THEN <<>>
  ELSE LET a == Head(as)
           rest == AuthorNamesUntilFailure(Tail(as))
       IN  IF a.key = NULL THEN rest
           ELSE IF a.resp.kind # "ok" THEN <<>>
           ELSE IF Strip(a.resp.name) # <<>>
           THEN <<Strip(a.resp.name)>> \o rest
           ELSE rest

\* The loop of lines 497-507: the names of the authors whose lookup
\* succeeds with a non-empty name, in the record's order.
RECURSIVE AuthorNames(_)
AuthorNames(as) ==
  IF as = <<>> THEN <<>>
  ELSE LET a == Head(as)
           rest == AuthorNames(Tail(as))
       IN  IF a.key # NULL /\ a.resp.kind = "ok" /\ Strip(a.resp.name) # <<>>
           THEN <<Strip(a.resp.name)>> \o rest
           ELSE rest

\* The requests that loop issues: one per author entry that has a key.
RECURSIVE AuthorRequests(_)
AuthorRequests(as) ==
  IF as = <<>> THEN <<>>
  ELSE (IF Head(as).key # NULL
        THEN <<[to |-> "openlibrary/author", what |-> Head(as).key]>>
        ELSE <<>>) \o AuthorRequests(Tail(as))

\* f"https://covers.openlibrary.org/b/isbn/{isbn}-L.jpg", line 509.
OLCover(isbn) == <<"covers/">> \o isbn \o <<"-L.jpg">>

\* json.dumps of the provider's payload (lines 518, 542): the text of the
\* record as it came, here its title.
Dumps(title) == <<"{">> \o title \o <<"}">>

\* A Provider A attempt that returns whatever parsed, titled or not.
OLSucceedsUntitled(ol) == ol.kind = "ok"

\* Provider A's attempt ends in a record: no exception, and `if title:`
\* (line 511) on the stripped title of line 495.
OLSucceeds(ol) == ol.kind = "ok" /\ Strip(ol.title) # <<>>

\* Provider B's attempt ends in a record: `if items:` (line 528) and
\* `if title:` (line 535) on the first item.
GBSucceeds(gb) ==
  /\ gb.kind = "ok"
  /\ gb.items # <<>>
  /\ Strip(gb.items[1].title) # <<>>

\* image_links.get("thumbnail") or image_links.get("smallThumbnail") or "",
\* line 533; a link that is absent is the empty text.
GBCover(item) ==
  IF item.thumbnail # <<>> THEN item.thumbnail ELSE item.smallThumbnail

\* The record of lines 512-519.
OLRecord(isbn, ol) ==
  [isbn |-> isbn, title |-> Strip(ol.title),
   authors |-> Join(AuthorNames(ol.authors)),
   cover_url |-> OLCover(isbn), source |-> SrcOpenLibrary,
   meta_json |-> Dumps(ol.title)]

\* The record of lines 536-543.
GBRecord(isbn, item) ==
  [isbn |-> isbn, title |-> Strip(item.title),
   authors |-> Join(item.authors),
   cover_url |-> GBCover(item), source |-> SrcGoogleBooks,
   meta_json |-> Dumps(item.title)]

\* Provider B asked while Provider A's attempt is still to come.
ProviderBFirst(a, b) == b \o a

\* The requests of a call that falls through to Provider B: B's request
\* (line 526) is issued when the try block of lines 492-521 has been left.
Sequential(a, b) == a \o b

\* fetch_book_metadata_by_isbn(s) under env: what it returns (out) and the
\* requests it issues, in order (reqs).
Fetch(s, env) ==
  LET isbn == Normalize(s)
      ol == OLLookup(env, isbn)
      gb == GBLookup(env, isbn)
      olReqs == <<[to |-> "openlibrary", what |-> isbn]>>
                  \o (IF ol.kind = "ok" THEN AuthorRequests(ol.authors)
                      ELSE <<>>)
      gbReqs == <<[to |-> "googlebooks", what |-> isbn]>>
  IN  IF isbn = <<>>
      THEN [out |-> NoMeta, reqs |-> <<>>]
      ELSE IF OLSucceeds(ol)
      THEN [out |-> OLRecord(isbn, ol), reqs |-> olReqs]
      ELSE IF GBSucceeds(gb)
      THEN [out |-> GBRecord(isbn, gb.items[1]),
            reqs |-> Sequential(olReqs, gbReqs)]
      ELSE [out |-> NoMeta, reqs |-> Sequential(olReqs, gbReqs)]

-----------------------------------------------------------------------------
(* The store.                                                              *)

Store ==
  [tables |-> tables, bookCols |-> bookCols, indexes |-> indexes,
   users |-> users, books |-> books, locs |-> locs]

NoSnap == [tables |-> {}]

\* table_exists(cur, table), lines 53-55.
table_exists(t) == t \in tables

\* column_exists(cur, "books", col), lines 48-50.
column_exists(c) == c \in bookCols

\* An owner for orphaned rows even where nobody is named admin: the first
\* user.
AdminIdOrFirst(us) ==
  IF \E i \in DOMAIN us : us[i] = <<"a", "d", "m", "i", "n">>
  THEN CHOOSE i \in DOMAIN us : us[i] = <<"a", "d", "m", "i", "n">>
  ELSE IF us # <<>> THEN 1 ELSE NullId

\* SELECT id FROM users WHERE username='admin' (line 140); username is
\* UNIQUE, so at most one row answers.  NullId when there is none.
AdminId(us) ==
  IF \E i \in DOMAIN us : us[i] = <<"a", "d", "m", "i", "n">>
  THEN CHOOSE i \in DOMAIN us : us[i] = <<"a", "d", "m", "i", "n">>
  ELSE NullId

\* The value ALTER TABLE ... ADD COLUMN gives the rows already there.
ColumnDefault(c) ==
  IF c = "user_id" THEN NullId
  ELSE IF c = "status" THEN Unread
  ELSE NULL

\* SQLite refuses ALTER TABLE ... ADD COLUMN with a default that is not a
\* constant (CURRENT_TIMESTAMP) on a table that holds rows: the statement
\* raises sqlite3.OperationalError, "Cannot add a column with non-constant
\* default".  On an empty table it is accepted.
AlterRaises(c, bs) == HasTimestampDefault(c) /\ bs # <<>>

\* A repair that fixes only the first orphaned row it finds.
RepairOwnersFirstOnly(bs, admin) ==
  IF \E i \in DOMAIN bs : bs[i].user_id = NullId
  THEN LET f == CHOOSE i \in DOMAIN bs :
                  /\ bs[i].user_id = NullId
                  /\ \A j \in DOMAIN bs : bs[j].user_id = NullId => i <= j
       IN  [bs EXCEPT ![f].user_id = admin]
  ELSE bs

\* A repair that hands every row to admin.
RepairOwnersEveryRow(bs, admin) ==
  [i \in DOMAIN bs |-> [bs[i] EXCEPT !.user_id = admin]]

\* UPDATE books SET user_id=? WHERE user_id IS NULL (line 145).
RepairOwners(bs, admin) ==
  [i \in DOMAIN bs |->
     IF bs[i].user_id = NullId THEN [bs[i] EXCEPT !.user_id = admin]
     ELSE bs[i]]

\* No request has been served (or time has passed since the last one).
NoRequest == [op |-> "none", user |-> NullId]

\* No write transaction is open; no edit request is being served.
NoTxn == [owner |-> "none"]
NoConn == <<>>

-----------------------------------------------------------------------------
(* init_db_and_migrate, lines 58-149, one action per statement.  The       *)
(* sqlite3 module opens no transaction for DDL, so each CREATE and ALTER   *)
(* is in the store as soon as it is executed.                              *)

MigGoto(p) == mig' = [mig EXCEPT !.pc = p]

\* The run ends (db.close(), or the exception leaves the function): the
\* first run's result is remembered.
MigEnd(p, after) ==
  /\ mig' = [mig EXCEPT !.pc = p, !.run = mig.run + 1]
  /\ snap' = IF mig.run = 0 THEN after ELSE snap

\* CREATE TABLE IF NOT EXISTS users, lines 67-74.
MigCreateUsers ==
  /\ mig.pc = "users"
  /\ tables' = tables \cup {"users"}
  /\ MigGoto("books")
  /\ UNCHANGED <<bookCols, indexes, users, books, locs, start, snap, res, clock, writes, last, txn, conn>>

\* CREATE TABLE IF NOT EXISTS books, lines 77-95.
MigCreateBooks ==
  /\ mig.pc = "books"
  /\ IF table_exists("books")
     THEN UNCHANGED <<tables, bookCols>>
     ELSE /\ tables' = tables \cup {"books"}
          /\ bookCols' = {"id"} \cup RequiredBookCols
  /\ mig' = [mig EXCEPT !.pc = "col", !.k = 1]
  /\ UNCHANGED <<indexes, users, books, locs, start, snap, res, clock, writes, last, txn, conn>>

\* if not column_exists(...): ALTER TABLE books ADD COLUMN ..., lines
\* 100-119, the column MigratedCols[mig.k].
MigAddColumn ==
  /\ mig.pc = "col"
  /\ LET c == MigratedCols[mig.k]
         next == IF mig.k < Len(MigratedCols)
                 THEN [mig EXCEPT !.k = mig.k + 1]
                 ELSE [mig EXCEPT !.pc = "locs"]
     IN  IF column_exists(c)
         THEN /\ mig' = next
              /\ UNCHANGED <<bookCols, books, snap>>
         ELSE IF AlterRaises(c, books)
         THEN /\ MigEnd("aborted", Store)
              /\ UNCHANGED <<bookCols, books>>
         ELSE /\ bookCols' = bookCols \cup {c}
              /\ books' = [i \in DOMAIN books |->
                             [books[i] EXCEPT ![c] = ColumnDefault(c)]]
              /\ mig' = next
              /\ UNCHANGED snap
  /\ UNCHANGED <<tables, indexes, users, locs, start, res, clock, writes, last, txn, conn>>

\* if not table_exists(cur, "book_locations"): CREATE TABLE, lines 122-133.
MigCreateLocations ==
  /\ mig.pc = "locs"
  /\ IF table_exists("book_locations")
     THEN /\ MigGoto("commit")
          /\ UNCHANGED tables
     ELSE /\ tables' = tables \cup {"book_locations"}
          /\ MigGoto("idx_book")
  /\ UNCHANGED <<bookCols, indexes, users, books, locs, start, snap, res, clock, writes, last, txn, conn>>

\* CREATE INDEX IF NOT EXISTS idx_book_locations_book, line 134.
MigCreateIndexBook ==
  /\ mig.pc = "idx_book"
  /\ indexes' = indexes \cup {"idx_book_locations_book"}
  /\ MigGoto("idx_user")
  /\ UNCHANGED <<tables, bookCols, users, books, locs, start, snap, res, clock, writes, last, txn, conn>>

\* CREATE INDEX IF NOT EXISTS idx_book_locations_user, line 135.
MigCreateIndexUser ==
  /\ mig.pc = "idx_user"
  /\ indexes' = indexes \cup {"idx_book_locations_user"}
  /\ MigGoto("commit")
  /\ UNCHANGED <<tables, bookCols, users, books, locs, start, snap, res, clock, writes, last, txn, conn>>

\* db.commit(), line 137.
MigCommit ==
  /\ mig.pc = "commit"
  /\ MigGoto("repair")
  /\ UNCHANGED <<tables, bookCols, indexes, users, books, locs, start, snap, res, clock, writes, last, txn, conn>>

\* The repair pass, lines 140-145: without an admin, db.close() (line 148)
\* ends the run; with one, the UPDATE opens a transaction.
MigRepair ==
  /\ mig.pc = "repair"
  /\ IF AdminId(users) # NullId
     THEN /\ txn' = [owner |-> "migrate",
                     books |-> RepairOwners(books, AdminId(users)),
                     locs |-> locs]
          /\ MigGoto("repair_commit")
          /\ UNCHANGED snap
     ELSE /\ MigEnd("done", Store)
          /\ UNCHANGED txn
  /\ UNCHANGED <<tables, bookCols, indexes, users, books, locs, start, res, clock, writes, last, conn>>

\* db.commit() and db.close(), lines 146-148.
MigRepairCommit ==
  /\ mig.pc = "repair_commit"
  /\ books' = txn.books
  /\ txn' = NoTxn
  /\ MigEnd("done", [Store EXCEPT !.books = txn.books])
  /\ UNCHANGED <<tables, bookCols, indexes, users, locs, start, res, clock, writes, last, conn>>

\* The process is killed between two statements of a run: what was
\* executed outside a transaction is in the store, the open transaction
\* is rolled back.
MigCrash ==
  /\ mig.pc \notin {"done", "aborted", "crashed"}
  /\ mig' = [mig EXCEPT !.pc = "crashed", !.run = mig.run + 1,
                        !.crashed = TRUE]
  /\ snap' = IF mig.run = 0 THEN Store ELSE snap
  /\ txn' = NoTxn
  /\ UNCHANGED <<tables, bookCols, indexes, users, books, locs, start, res, clock, writes, last, conn>>

\* The schema a run of lines 58-137 that is not interrupted and does not
\* raise leaves of the store s: every table; for a books table that was
\* there, its columns and the seven of lines 100-119; the two indexes
\* where the run itself creates book_locations.
MigratedSchema(s) ==
  [tables |-> s.tables \cup RequiredTables,
   bookCols |-> IF "books" \in s.tables
                THEN s.bookCols \cup
                       {MigratedCols[k] : k \in DOMAIN MigratedCols}
                ELSE {"id"} \cup RequiredBookCols,
   indexes |-> IF "book_locations" \in s.tables
               THEN s.indexes ELSE RequiredIndexes]

\* The process is started again: line 152 runs the migration at import.
MigRestart ==
  /\ mig.pc \in {"done", "aborted", "crashed"}
  /\ mig.run < MaxRuns
  /\ mig' = [mig EXCEPT !.pc = "users", !.k = 1]
  /\ UNCHANGED <<tables, bookCols, indexes, users, books, locs, start, snap, res, clock, writes, last, txn, conn>>

\* The stores the migration may find: any subset of the tables, a books
\* table missing up to MaxMissingCols columns, with or without indexes,
\* users and legacy rows.  A row has no owner where the column is missing.
LegacyUsers ==
  {<<>>, <<<<"a", "d", "m", "i", "n">>>>, <<<<"b">>>>,
   <<<<"b">>, <<"a", "d", "m", "i", "n">>>>}

LegacyOwners == {NullId, 1}

InitMigrate ==
  /\ tables \in SUBSET RequiredTables
  /\ bookCols \in
       IF "books" \in tables
       THEN {{"id"} \cup (RequiredBookCols \ m) :
               m \in {x \in SUBSET RequiredBookCols :
                        Cardinality(x) <= MaxMissingCols}}
       ELSE {{}}
  /\ indexes \in
       IF "book_locations" \in tables THEN SUBSET RequiredIndexes ELSE {{}}
  /\ users \in IF "users" \in tables THEN LegacyUsers ELSE {<<>>}
  /\ books \in
       IF "books" \in tables
       THEN UNION {[1..n -> {LegacyBook(u) :
                     u \in IF "user_id" \in bookCols
                            THEN LegacyOwners ELSE {NullId}}] :
                   n \in 0..MaxLegacyBooks}
       ELSE {<<>>}
  /\ locs = <<>>
  /\ mig = [pc |-> "users", k |-> 1, run |-> 0, crashed |-> FALSE]
  /\ start = Store
  /\ snap = NoSnap
  /\ res = NoCall
  /\ clock = 0
  /\ writes = 0
  /\ last = NoRequest
  /\ txn = NoTxn
  /\ conn = NoConn

NextMigrate ==
  \/ MigCreateUsers
  \/ MigCreateBooks
  \/ MigAddColumn
  \/ MigCreateLocations
  \/ MigCreateIndexBook
  \/ MigCreateIndexUser
  \/ MigCommit
  \/ MigRepair
  \/ MigRepairCommit
  \/ MigRestart

SpecMigrate == InitMigrate /\ [][NextMigrate]_vars

\* The migration with runs that are interrupted.
NextMigrateCrash ==
  \/ NextMigrate
  \/ MigCrash

SpecMigrateCrash == InitMigrate /\ [][NextMigrateCrash]_vars

-----------------------------------------------------------------------------
(* The resolver called on its own, on any ISBN text and under any          *)
(* behaviour of the providers.                                             *)

\* The ISBN texts passed to the resolver: hyphens and whitespace in front,
\* inside and behind.
IsbnTexts ==
  {<<>>, <<"-">>, <<" ", "-", " ">>, <<"9">>, <<" ", "9">>, <<"9", "-">>,
   <<"-", " ", "9">>, <<"9", " ", "-">>, <<"9", "-", "7">>,
   <<" ", "9", "7", " ">>, <<"9", " ", "7">>}

\* An entry of a Provider A record's author list and what its lookup
\* answers: no key, a failed lookup, an empty name, a name.
AuthorEntries ==
  {[key |-> NULL, resp |-> HttpError],
   [key |-> <<"/a/1">>, resp |-> HttpError],
   [key |-> <<"/a/2">>, resp |-> [kind |-> "ok", name |-> <<>>]],
   [key |-> <<"/a/3">>, resp |-> [kind |-> "ok", name |-> <<"A">>]],
   [key |-> <<"/a/4">>, resp |-> [kind |-> "ok", name |-> <<" ", "B">>]]}

OLResponses ==
  {HttpError} \cup
  {[kind |-> "ok", title |-> t, authors |-> a] :
     t \in {<<>>, <<" ">>, <<"O", " ">>},
     a \in UNION {[1..n -> AuthorEntries] : n \in 0..MaxAuthors}}

GBItems ==
  {[title |-> t, authors |-> a, thumbnail |-> th, smallThumbnail |-> sm] :
     t \in {<<>>, <<" ">>, <<" ", "G">>},
     a \in {<<>>, <<<<"X">>, <<"Y">>>>},
     th \in {<<>>, <<"thumb">>},
     sm \in {<<>>, <<"small">>}}

\* A second result item: the resolver reads only the first.
GBSecondItem ==
  [title |-> <<"H">>, authors |-> <<>>, thumbnail |-> <<>>,
   smallThumbnail |-> <<>>]

GBResponses ==
  {HttpError, [kind |-> "ok", items |-> <<>>]}
    \cup {[kind |-> "ok", items |-> <<i>>] : i \in GBItems}
    \cup {[kind |-> "ok", items |-> <<i, GBSecondItem>>] : i \in GBItems}

Envs ==
  [isbn : {<<"9">>, <<"9", "7">>}, ol : OLResponses, gb : GBResponses]

\* One call fetch_book_metadata_by_isbn(s).
Resolve ==
  /\ ~res.called
  /\ \E s \in IsbnTexts, env \in Envs :
       res' = [called |-> TRUE, isbn |-> s, env |-> env,
               ret |-> Fetch(s, env)]
  /\ UNCHANGED <<tables, bookCols, indexes, users, books, locs, mig,
                 start, snap, clock, writes, last, txn, conn>>

InitResolve ==
  /\ tables = RequiredTables
  /\ bookCols = {"id"} \cup RequiredBookCols
  /\ indexes = RequiredIndexes
  /\ users = <<>>
  /\ books = <<>>
  /\ locs = <<>>
  /\ mig = [pc |-> "done", k |-> 1, run |-> 1, crashed |-> FALSE]
  /\ start = Store
  /\ snap = Store
  /\ res = NoCall
  /\ clock = 0
  /\ writes = 0
  /\ last = NoRequest
  /\ txn = NoTxn
  /\ conn = NoConn

\* The caller is done with what the call returned.
ResolveReturn ==
  /\ res.called
  /\ res' = NoCall
  /\ UNCHANGED <<tables, bookCols, indexes, users, books, locs, mig,
                 start, snap, clock, writes, last, txn, conn>>

NextResolve == Resolve \/ ResolveReturn

SpecResolve == InitResolve /\ [][NextResolve]_vars

-----------------------------------------------------------------------------
(* The catalog handlers, lines 260-469 and 550-599.  A handler runs from   *)
(* its first statement to its response as one step.  Every handler is      *)
(* behind login_required: u is session["user_id"], a registered user.      *)

\* 404, from abort(404).
NotFound == [status |-> 404]

\* render_template(page, ...): the page and the rows handed to it.
Page(name, data) == [status |-> 200, page |-> name, data |-> data]

\* redirect(url_for("book", book_id=id)).
ToBook(id) == [status |-> 302, to |-> "book", book_id |-> id]

\* redirect(url_for("add", isbn=isbn)).
ToAdd(isbn) == [status |-> 302, to |-> "add", isbn |-> isbn]

\* redirect(url_for("index")) and redirect(url_for("scan")).
ToIndex == [status |-> 302, to |-> "index"]
ToScan == [status |-> 302, to |-> "scan"]

\* A row as SELECT * returns it: its id and its columns.
BookRow(i) == [id |-> i, row |-> books[i]]

\* (request.form.get("status") or "unread").strip() or "unread", lines 318
\* and 397.
StatusOf(raw) ==
  LET t == Strip(IF raw = <<>> THEN Unread ELSE raw)
  IN  IF t = <<>> THEN Unread ELSE t

\* ASCII case folding, as SQLite's LIKE does it.
Fold(c) ==
  CASE c = "a" -> "A" [] c = "b" -> "B" [] c = "g" -> "G" [] c = "o" -> "O"
    [] c = "t" -> "T" [] c = "x" -> "X" [] c = "y" -> "Y" [] OTHER -> c

\* text LIKE pattern: % is any run of characters, _ any one character,
\* letters compare without case.
RECURSIVE LikeMatch(_, _)
LikeMatch(pat, text) ==
  IF pat = <<>> THEN text = <<>>
  ELSE IF Head(pat) = "%"
  THEN \/ LikeMatch(Tail(pat), text)
       \/ text # <<>> /\ LikeMatch(pat, Tail(text))
  ELSE /\ text # <<>>
       /\ Head(pat) = "_" \/ Fold(Head(pat)) = Fold(Head(text))
       /\ LikeMatch(Tail(pat), Tail(text))

\* column LIKE '%q%' (lines 268, 274-277): NULL matches nothing.
Like(col, q) == col # NULL /\ LikeMatch(<<"%">> \o q \o <<"%">>, col)

\* ORDER BY key DESC, id DESC over the rows ids of table t, key(i) being
\* the time column of row i.
RECURSIVE OrderDesc(_, _)
OrderDesc(ids, key) ==
  IF ids = {} THEN <<>>
  ELSE LET m == CHOOSE i \in ids :
                  \A j \in ids :
                    \/ key[i] > key[j]
                    \/ key[i] = key[j] /\ i >= j
       IN  <<m>> \o OrderDesc(ids \ {m}, key)

\* A list that holds every user's rows.
IndexIdsAnyOwner(u, q) ==
  {i \in DOMAIN books :
     q = <<>> \/ Like(books[i].title, q) \/ Like(books[i].authors, q)
              \/ Like(books[i].tags, q) \/ Like(books[i].isbn, q)}

\* The rows of the SELECT of index(), lines 267-291.
IndexIds(u, q) ==
  {i \in DOMAIN books :
     /\ books[i].user_id = u
     /\ q = <<>> \/ Like(books[i].title, q) \/ Like(books[i].authors, q)
                 \/ Like(books[i].tags, q) \/ Like(books[i].isbn, q)}

\* A lookup by id alone.
OwnBookAnyOwner(u, id) == id \in DOMAIN books

\* SELECT * FROM books WHERE id=? AND user_id=? finds a row, lines 349-354
\* and 379-384.
OwnBook(u, id) == id \in DOMAIN books /\ books[id].user_id = u

\* LIMIT 50, line 364.
HistoryLimit == 50

\* The history SELECT of book(), lines 358-367.  The SELECT returns
\* location and changed_at; the row's id is kept beside them to tell which
\* row an entry came from.
History(u, id) ==
  LET ids == {i \in DOMAIN locs :
                locs[i].book_id = id /\ locs[i].user_id = u}
      all == OrderDesc(ids, [i \in ids |-> locs[i].changed_at])
      n == IF Len(all) < HistoryLimit THEN Len(all) ELSE HistoryLimit
  IN  [k \in 1..n |->
         [id |-> all[k], location |-> locs[all[k]].location,
          changed_at |-> locs[all[k]].changed_at]]

\* A duplicate check that finds nothing.
SameIsbnIdsNone(u, code) == {}

\* SELECT ... FROM books WHERE user_id=? AND isbn=?, lines 464-467 and
\* 567-570: the ids of the rows that answer.
SameIsbnIds(u, code) ==
  {i \in DOMAIN books : books[i].user_id = u /\ books[i].isbn = code}

\* A history entry on every save with a location.
LocationChangedAlways(old, new) == new # <<>>

\* if new_location and new_location != old_location, line 417.
LocationChanged(old, new) == new # <<>> /\ new # old

\* A fallback that passes the resolver's form of the code on.
FallbackIsbnNormalized(code) == Normalize(code)

\* The isbn the fallback redirect carries, line 578.
FallbackIsbn(code) == code

\* A title check that lets every title pass.
TitleMissingNever(title) == FALSE

\* if not title, lines 320 and 399.
TitleMissing(title) == title = <<>>

\* index(), lines 262-293.
Index(u, qraw) ==
  LET q == Strip(qraw)
      ids == IndexIds(u, q)
      rows == OrderDesc(ids, [i \in ids |-> books[i].updated_at])
  IN  /\ last' = [op |-> "index", user |-> u, q |-> qraw,
                  resp |-> Page("index",
                                [k \in DOMAIN rows |-> BookRow(rows[k])])]
      /\ UNCHANGED <<books, locs, clock, writes>>

\* add(), GET, lines 299-309 and 340: the form, its isbn from the query.
AddGet(u, isbn) ==
  /\ last' = [op |-> "add_get", user |-> u,
              resp |-> Page("add", [isbn |-> isbn])]
  /\ UNCHANGED <<books, locs, clock, writes>>

\* add(), POST, lines 311-338.
AddPost(u, f) ==
  LET isbn == Strip(f.isbn)
      title == Strip(f.title)
      authors == Strip(f.authors)
      tags == Strip(f.tags)
      location == Strip(f.location)
      notes == Strip(f.notes)
      status == StatusOf(f.status)
  IN  IF TitleMissing(title)
      THEN /\ last' = [op |-> "add_post", user |-> u, form |-> f,
                       nbooks |-> Len(books), nlocs |-> Len(locs),
                       resp |-> Page("add", [isbn |-> isbn])]
           /\ UNCHANGED <<books, locs, clock, writes>>
      ELSE /\ writes < MaxWrites
           /\ writes' = writes + 1
           /\ books' = Append(books,
                [user_id |-> u, isbn |-> OrNull(isbn), title |-> title,
                 authors |-> OrNull(authors), tags |-> OrNull(tags),
                 location |-> OrNull(location), notes |-> OrNull(notes),
                 status |-> status, cover_url |-> NULL, source |-> NULL,
                 meta_json |-> NULL, updated_at |-> clock])
           /\ last' = [op |-> "add_post", user |-> u, form |-> f,
                       nbooks |-> Len(books), nlocs |-> Len(locs),
                       resp |-> ToIndex]
           /\ UNCHANGED <<locs, clock>>

\* book(), lines 345-370.
Book(u, id) ==
  /\ last' = [op |-> "book", user |-> u, id |-> id,
              resp |-> IF ~OwnBook(u, id) THEN NotFound
                       ELSE Page("book", [b |-> BookRow(id),
                                          history |-> History(u, id)])]
  /\ UNCHANGED <<books, locs, clock, writes>>

\* edit(), GET, lines 375-386 and 427.
EditGet(u, id) ==
  /\ last' = [op |-> "edit_get", user |-> u, id |-> id,
              resp |-> IF ~OwnBook(u, id) THEN NotFound
                       ELSE Page("edit", [b |-> BookRow(id)])]
  /\ UNCHANGED <<books, locs, clock, writes>>

\* edit(), POST, lines 375-425.
EditPost(u, id, f) ==
  LET req == [op |-> "edit_post", user |-> u, id |-> id, form |-> f,
              nbooks |-> Len(books), nlocs |-> Len(locs)]
  IN
  IF ~OwnBook(u, id)
  THEN /\ last' = req @@ [resp |-> NotFound]
       /\ UNCHANGED <<books, locs, clock, writes>>
  ELSE
  LET old_location == Strip(OrEmpty(books[id].location))
      isbn == Strip(f.isbn)
      title == Strip(f.title)
      authors == Strip(f.authors)
      tags == Strip(f.tags)
      location == Strip(f.location)
      notes == Strip(f.notes)
      status == StatusOf(f.status)
      new_location == Strip(location)
  IN  IF TitleMissing(title)
      THEN /\ last' = req @@ [resp |-> Page("edit", [id |-> id])]
           /\ UNCHANGED <<books, locs, clock, writes>>
      ELSE /\ writes < MaxWrites
           /\ writes' = writes + 1
           /\ books' = [i \in DOMAIN books |->
                          IF i = id /\ books[i].user_id = u
                          THEN [books[i] EXCEPT
                                  !.isbn = OrNull(isbn), !.title = title,
                                  !.authors = OrNull(authors),
                                  !.tags = OrNull(tags),
                                  !.location = OrNull(location),
                                  !.notes = OrNull(notes),
                                  !.status = status,
                                  !.updated_at = clock]
                          ELSE books[i]]
           /\ IF LocationChanged(old_location, new_location)
              THEN locs' = Append(locs,
                        [book_id |-> id, user_id |-> u,
                         location |-> new_location, changed_at |-> clock])
              ELSE UNCHANGED locs
           /\ last' = req @@ [resp |-> ToBook(id)]
           /\ UNCHANGED clock

\* scan(), lines 458-469.
Scan(u, raw) ==
  LET code == Strip(raw)
      ids == IF code = <<>> THEN {} ELSE SameIsbnIds(u, code)
  IN  /\ \E found \in IF ids = {} THEN {NullId} ELSE ids :
           last' = [op |-> "scan", user |-> u, code |-> raw,
                    resp |-> Page("scan",
                                  IF found = NullId THEN <<>>
                                  ELSE <<BookRow(found)>>)]
      /\ UNCHANGED <<books, locs, clock, writes>>

\* scan_auto_add(), lines 552-599, the providers behaving as env.
ScanAutoAdd(u, raw, env) ==
  LET code == Strip(raw)
      req == [op |-> "scan_auto_add", user |-> u, code |-> raw, env |-> env,
              nbooks |-> Len(books), nlocs |-> Len(locs)]
      ex == IF code = <<>> THEN {} ELSE SameIsbnIds(u, code)
      fetched == Fetch(code, env)
      meta == fetched.out
  IN  IF code = <<>>
      THEN /\ last' = req @@ [reqs |-> <<>>, resp |-> ToScan]
           /\ UNCHANGED <<books, locs, clock, writes>>
      ELSE IF ex # {}
      THEN /\ \E id \in ex :
                last' = req @@ [reqs |-> <<>>, resp |-> ToBook(id)]
           /\ UNCHANGED <<books, locs, clock, writes>>
      ELSE IF meta = NoMeta \/ meta.title = <<>>
      THEN /\ last' = req @@ [reqs |-> fetched.reqs,
                              resp |-> ToAdd(FallbackIsbn(code))]
           /\ UNCHANGED <<books, locs, clock, writes>>
      ELSE /\ writes < MaxWrites
           /\ writes' = writes + 1
           /\ books' = Append(books,
                [user_id |-> u,
                 isbn |-> IF meta.isbn # <<>> THEN meta.isbn ELSE code,
                 title |-> meta.title, authors |-> OrNull(meta.authors),
                 tags |-> NULL, location |-> NULL, notes |-> NULL,
                 status |-> Unread, cover_url |-> OrNull(meta.cover_url),
                 source |-> OrNull(meta.source),
                 meta_json |-> OrNull(meta.meta_json),
                 updated_at |-> clock])
           /\ last' = req @@ [reqs |-> fetched.reqs,
                              resp |-> ToBook(Len(books) + 1)]
           /\ UNCHANGED <<locs, clock>>

\* The response is sent; the next request can be served.
Respond ==
  /\ last' = NoRequest
  /\ UNCHANGED <<books, locs, clock, writes>>

\* A second passes on the store's clock.  Time is read only when a request
\* writes, so at most one second is let pass per write: further seconds
\* would change no comparison of two stored times.
Tick ==
  /\ clock < writes
  /\ clock' = clock + 1
  /\ UNCHANGED <<books, locs, writes, last>>

-----------------------------------------------------------------------------
(* The requests the catalog is driven with.                                *)

BlankForm ==
  [isbn |-> <<>>, title |-> <<>>, authors |-> <<>>, tags |-> <<>>,
   location |-> <<>>, notes |-> <<>>, status |-> <<>>]

\* The forms posted to add: one with text to trim and one whose title is
\* blank.
AddForms ==
  {[BlankForm EXCEPT !.isbn = <<"9">>, !.title = <<" ", "T">>,
                     !.location = <<"a", " ">>],
   [BlankForm EXCEPT !.isbn = <<"9">>, !.title = <<" ">>,
                     !.location = <<"b">>]}

\* The forms posted to edit: the location cleared, kept, padded, changed,
\* and a form whose title is blank.
EditForms ==
  {[BlankForm EXCEPT !.isbn = <<"9">>, !.title = <<"T">>,
                     !.location = l] :
     l \in {<<>>, <<"a">>, <<" ", "a">>, <<"b">>}}
  \cup {[BlankForm EXCEPT !.isbn = <<"9">>, !.location = <<"b">>]}

\* The codes sent to scan and scan_auto_add: none, padded, hyphenated.
ScanCodes == {<<>>, <<" ", "9">>, <<"9", "-">>}

\* The filters sent to index.
Filters == {<<>>, <<"t">>, <<"_">>}

\* The providers as the catalog meets them: both failing; A titled; A
\* with a blank title and B titled.
CatalogEnvs ==
  {[isbn |-> <<"9">>, ol |-> HttpError, gb |-> HttpError],
   [isbn |-> <<"9">>,
    ol |-> [kind |-> "ok", title |-> <<"O">>,
            authors |-> <<[key |-> <<"/a/3">>,
                           resp |-> [kind |-> "ok", name |-> <<"A">>]]>>],
    gb |-> HttpError],
   [isbn |-> <<"9">>,
    ol |-> [kind |-> "ok", title |-> <<" ">>, authors |-> <<>>],
    gb |-> [kind |-> "ok",
            items |-> <<[title |-> <<"G">>, authors |-> <<>>,
                         thumbnail |-> <<>>,
                         smallThumbnail |-> <<"small">>]>>]]}

UserIds == DOMAIN users
BookIds == 1..(Len(start.books) + MaxWrites)

\* After the migration of a fresh store and the registration of two users.
InitCatalog ==
  /\ tables = RequiredTables
  /\ bookCols = {"id"} \cup RequiredBookCols
  /\ indexes = RequiredIndexes
  /\ users = <<<<"a", "d", "m", "i", "n">>, <<"b">>>>
  /\ books = <<>>
  /\ locs = <<>>
  /\ mig = [pc |-> "done", k |-> 1, run |-> 1, crashed |-> FALSE]
  /\ start = Store
  /\ snap = Store
  /\ res = NoCall
  /\ clock = 0
  /\ writes = 0
  /\ last = NoRequest
  /\ txn = NoTxn
  /\ conn = NoConn

\* Requests are served one at a time (the handlers share no state but the
\* store): a request is taken when the last response has been sent.  The
\* application serves once init_db_and_migrate (line 152) has returned.
Schema == <<tables, bookCols, indexes, users, mig, start, snap, res, txn, conn>>

IndexRequest ==
  /\ mig.pc = "done"
  /\ last = NoRequest
  /\ \E u \in UserIds, q \in Filters : Index(u, q)
  /\ UNCHANGED Schema

AddGetRequest ==
  /\ mig.pc = "done"
  /\ last = NoRequest
  /\ \E u \in UserIds, c \in ScanCodes : AddGet(u, c)
  /\ UNCHANGED Schema

AddPostRequest ==
  /\ mig.pc = "done"
  /\ last = NoRequest
  /\ \E u \in UserIds, f \in AddForms : AddPost(u, f)
  /\ UNCHANGED Schema

BookRequest ==
  /\ mig.pc = "done"
  /\ last = NoRequest
  /\ \E u \in UserIds, id \in BookIds : Book(u, id)
  /\ UNCHANGED Schema

EditGetRequest ==
  /\ mig.pc = "done"
  /\ last = NoRequest
  /\ \E u \in UserIds, id \in BookIds : EditGet(u, id)
  /\ UNCHANGED Schema

EditPostRequest ==
  /\ mig.pc = "done"
  /\ last = NoRequest
  /\ \E u \in UserIds, id \in BookIds, f \in EditForms : EditPost(u, id, f)
  /\ UNCHANGED Schema

ScanRequest ==
  /\ mig.pc = "done"
  /\ last = NoRequest
  /\ \E u \in UserIds, c \in ScanCodes : Scan(u, c)
  /\ UNCHANGED Schema

ScanAutoAddRequest ==
  /\ mig.pc = "done"
  /\ last = NoRequest
  /\ \E u \in UserIds, c \in ScanCodes, env \in CatalogEnvs :
       ScanAutoAdd(u, c, env)
  /\ UNCHANGED Schema

ResponseSent ==
  /\ last # NoRequest
  /\ Respond
  /\ UNCHANGED Schema

SecondPasses ==
  /\ mig.pc = "done"
  /\ last = NoRequest
  /\ Tick
  /\ UNCHANGED Schema

NextCatalog ==
  \/ IndexRequest
  \/ AddGetRequest
  \/ AddPostRequest
  \/ BookRequest
  \/ EditGetRequest
  \/ EditPostRequest
  \/ ScanRequest
  \/ ScanAutoAddRequest
  \/ ResponseSent
  \/ SecondPasses

SpecCatalog == InitCatalog /\ [][NextCatalog]_vars

-----------------------------------------------------------------------------
(* Edit requests served side by side (app.run serves each request in a     *)
(* thread of its own), one action per statement of edit(), lines 375-425.  *)
(* Each request has its own connection (get_db, lines 33-38).  A SELECT    *)
(* reads the committed store and holds no lock once its row is fetched.    *)
(* The first UPDATE or INSERT of a connection opens a transaction and      *)
(* takes the store's write lock; what the transaction writes is in the     *)
(* store, and visible to other connections, from db.commit() on.  A        *)
(* connection closed without commit (close_db, lines 40-44) is rolled      *)
(* back.                                                                   *)

Procs == {"p1", "p2"}

Idle == [pc |-> "idle"]

Failed(why) == [status |-> 500, error |-> why]

\* A connection that commits every statement by itself.
OpensTransactionNever(stmt) == FALSE

\* sqlite3.connect(DB_PATH) with the module's default isolation level
\* (line 35): a transaction is opened before a statement that writes rows.
OpensTransaction(stmt) == stmt \in {"INSERT", "UPDATE", "DELETE", "REPLACE"}

\* The books and book_locations connection p sees and writes.
View(p) ==
  IF txn.owner = p THEN [books |-> txn.books, locs |-> txn.locs]
  ELSE [books |-> books, locs |-> locs]

\* Connection p executes a statement that leaves the tables as bs and ls:
\* into its transaction, or into the store where it has none.
Write(p, stmt, bs, ls) ==
  IF txn.owner = p \/ OpensTransaction(stmt)
  THEN /\ txn' = [owner |-> p, books |-> bs, locs |-> ls]
       /\ UNCHANGED <<books, locs>>
  ELSE /\ books' = bs
       /\ locs' = ls
       /\ UNCHANGED txn

EditsFrame == <<tables, bookCols, indexes, users, mig, start, snap, res, last>>

\* Lines 376-405: the SELECT of the Book, 404 if it is not the caller's,
\* the location read from it, the form, the title check.
EditRead ==
  \E p \in Procs, u \in UserIds, id \in DOMAIN books, f \in EditForms :
    /\ conn[p] = Idle
    /\ IF ~OwnBook(u, id)
       THEN /\ conn' = [conn EXCEPT ![p] = [pc |-> "done", resp |-> NotFound]]
            /\ UNCHANGED writes
       ELSE IF TitleMissing(Strip(f.title))
       THEN /\ conn' = [conn EXCEPT ![p] =
                          [pc |-> "done", resp |-> Page("edit", [id |-> id])]]
            /\ UNCHANGED writes
       ELSE /\ writes < MaxWrites
            /\ writes' = writes + 1
            /\ conn' = [conn EXCEPT ![p] =
                          [pc |-> "update", user |-> u, id |-> id, form |-> f,
                           old_location |->
                             Strip(OrEmpty(books[id].location))]]
    /\ UNCHANGED <<books, locs, txn, clock>>
    /\ UNCHANGED EditsFrame

\* The UPDATE of lines 407-414, when no other connection holds the write
\* lock.
EditUpdate ==
  \E p \in Procs :
    /\ conn[p].pc = "update"
    /\ txn.owner \in {"none", p}
    /\ LET c == conn[p]
           f == c.form
           v == View(p)
       IN  Write(p, "UPDATE",
                 [i \in DOMAIN v.books |->
                    IF i = c.id /\ v.books[i].user_id = c.user
                    THEN [v.books[i] EXCEPT
                            !.isbn = OrNull(Strip(f.isbn)),
                            !.title = Strip(f.title),
                            !.authors = OrNull(Strip(f.authors)),
                            !.tags = OrNull(Strip(f.tags)),
                            !.location = OrNull(Strip(f.location)),
                            !.notes = OrNull(Strip(f.notes)),
                            !.status = StatusOf(f.status),
                            !.updated_at = clock]
                    ELSE v.books[i]],
                 v.locs)
    /\ conn' = [conn EXCEPT ![p].pc = "insert"]
    /\ UNCHANGED <<clock, writes>>
    /\ UNCHANGED EditsFrame

\* The write lock is not released within the connection's timeout: the
\* UPDATE raises sqlite3.OperationalError, database is locked.
EditLocked ==
  \E p \in Procs :
    /\ conn[p].pc = "update"
    /\ txn.owner \notin {"none", p}
    /\ conn' = [conn EXCEPT ![p] = [pc |-> "done", resp |-> Failed("locked")]]
    /\ UNCHANGED <<books, locs, txn, clock, writes>>
    /\ UNCHANGED EditsFrame

\* Lines 416-421: the INSERT into book_locations if the location changed.
EditInsert ==
  \E p \in Procs :
    /\ conn[p].pc = "insert"
    /\ LET c == conn[p]
           new_location == Strip(Strip(c.form.location))
           v == View(p)
       IN  IF LocationChanged(c.old_location, new_location)
           THEN /\ txn.owner \in {"none", p}
                /\ Write(p, "INSERT", v.books,
                         Append(v.locs,
                                [book_id |-> c.id, user_id |-> c.user,
                                 location |-> new_location,
                                 changed_at |-> clock]))
           ELSE UNCHANGED <<books, locs, txn>>
    /\ conn' = [conn EXCEPT ![p].pc = "commit"]
    /\ UNCHANGED <<clock, writes>>
    /\ UNCHANGED EditsFrame

\* db.commit() and the redirect, lines 423-425.
EditCommit ==
  \E p \in Procs :
    /\ conn[p].pc = "commit"
    /\ IF txn.owner = p
       THEN /\ books' = txn.books
            /\ locs' = txn.locs
            /\ txn' = NoTxn
       ELSE UNCHANGED <<books, locs, txn>>
    /\ conn' = [conn EXCEPT ![p] =
                  [pc |-> "done", id |-> conn[p].id,
                   resp |-> ToBook(conn[p].id)]]
    /\ UNCHANGED <<clock, writes>>
    /\ UNCHANGED EditsFrame

\* The request dies after its UPDATE and before db.commit() (an exception,
\* the worker killed): the connection is closed, its transaction rolled
\* back.
EditFail ==
  \E p \in Procs :
    /\ conn[p].pc \in {"insert", "commit"}
    /\ txn' = IF txn.owner = p THEN NoTxn ELSE txn
    /\ conn' = [conn EXCEPT ![p] = [pc |-> "done", resp |-> Failed("died")]]
    /\ UNCHANGED <<books, locs, clock, writes>>
    /\ UNCHANGED EditsFrame

\* The response is sent and the thread serves the next request.
EditRespond ==
  \E p \in Procs :
    /\ conn[p].pc = "done"
    /\ conn' = [conn EXCEPT ![p] = Idle]
    /\ UNCHANGED <<books, locs, txn, clock, writes>>
    /\ UNCHANGED EditsFrame

\* A second passes.
EditTick ==
  /\ Tick
  /\ UNCHANGED <<tables, bookCols, indexes, users, mig, start, snap, res,
                 txn, conn>>

\* One Book of user 1, shelved or not, in a migrated store.
InitEdits ==
  /\ tables = RequiredTables
  /\ bookCols = {"id"} \cup RequiredBookCols
  /\ indexes = RequiredIndexes
  /\ users = <<<<"a", "d", "m", "i", "n">>, <<"b">>>>
  /\ books \in {<<[LegacyBook(1) EXCEPT !.status = Unread,
                                         !.location = l]>> :
                   l \in {NULL, <<"a">>}}
  /\ locs = <<>>
  /\ mig = [pc |-> "done", k |-> 1, run |-> 1, crashed |-> FALSE]
  /\ start = Store
  /\ snap = Store
  /\ res = NoCall
  /\ clock = 0
  /\ writes = 0
  /\ last = NoRequest
  /\ txn = NoTxn
  /\ conn = [p \in Procs |-> Idle]

NextEdits ==
  \/ EditRead
  \/ EditUpdate
  \/ EditLocked
  \/ EditInsert
  \/ EditCommit
  \/ EditFail
  \/ EditRespond
  \/ EditTick

SpecEdits == InitEdits /\ [][NextEdits]_vars

-----------------------------------------------------------------------------
(* Auto-add requests served side by side, one action per step of           *)
(* scan_auto_add(), lines 552-599: the duplicate check, the resolver call, *)
(* the INSERT, the commit.  Connections, transactions and the write lock   *)
(* are those of the edit requests above.  The books table has no UNIQUE    *)
(* constraint on (user_id, isbn), lines 77-95.                             *)

\* Lines 557-573: the code, the duplicate check on the committed store.
AutoAddCheck ==
  \E p \in Procs, u \in UserIds, raw \in ScanCodes, env \in CatalogEnvs :
    /\ conn[p] = Idle
    /\ LET code == Strip(raw)
           ex == IF code = <<>> THEN {} ELSE SameIsbnIds(u, code)
       IN  IF code = <<>>
           THEN /\ conn' = [conn EXCEPT ![p] = [pc |-> "done", resp |-> ToScan]]
                /\ UNCHANGED writes
           ELSE IF ex # {}
           THEN /\ \E id \in ex :
                     conn' = [conn EXCEPT ![p] =
                                [pc |-> "done", resp |-> ToBook(id)]]
                /\ UNCHANGED writes
           ELSE /\ writes < MaxWrites
                /\ writes' = writes + 1
                /\ conn' = [conn EXCEPT ![p] =
                              [pc |-> "fetch", user |-> u, code |-> code,
                               env |-> env]]
    /\ UNCHANGED <<books, locs, txn, clock>>
    /\ UNCHANGED EditsFrame

\* Lines 575-578: the resolver call, and the fallback if it yields nothing.
AutoAddFetch ==
  \E p \in Procs :
    /\ conn[p].pc = "fetch"
    /\ LET c == conn[p]
           meta == Fetch(c.code, c.env).out
       IN  IF meta = NoMeta \/ meta.title = <<>>
           THEN conn' = [conn EXCEPT ![p] =
                           [pc |-> "done",
                            resp |-> ToAdd(FallbackIsbn(c.code))]]
           ELSE conn' = [conn EXCEPT ![p] =
                           [pc |-> "insert", user |-> c.user,
                            code |-> c.code, meta |-> meta]]
    /\ UNCHANGED <<books, locs, txn, clock, writes>>
    /\ UNCHANGED EditsFrame

\* The INSERT of lines 580-594, when no other connection holds the write
\* lock.
AutoAddInsert ==
  \E p \in Procs :
    /\ conn[p].pc = "insert"
    /\ txn.owner \in {"none", p}
    /\ LET c == conn[p]
           meta == c.meta
           v == View(p)
       IN  Write(p, "INSERT",
                 Append(v.books,
                   [user_id |-> c.user,
                    isbn |-> IF meta.isbn # <<>> THEN meta.isbn ELSE c.code,
                    title |-> meta.title, authors |-> OrNull(meta.authors),
                    tags |-> NULL, location |-> NULL, notes |-> NULL,
                    status |-> Unread, cover_url |-> OrNull(meta.cover_url),
                    source |-> OrNull(meta.source),
                    meta_json |-> OrNull(meta.meta_json),
                    updated_at |-> clock]),
                 v.locs)
    /\ conn' = [conn EXCEPT ![p].pc = "commit"]
    /\ UNCHANGED <<clock, writes>>
    /\ UNCHANGED EditsFrame

\* The write lock is not released within the connection's timeout: the
\* INSERT raises sqlite3.OperationalError, database is locked.
AutoAddLocked ==
  \E p \in Procs :
    /\ conn[p].pc = "insert"
    /\ txn.owner \notin {"none", p}
    /\ conn' = [conn EXCEPT ![p] = [pc |-> "done", resp |-> Failed("locked")]]
    /\ UNCHANGED <<books, locs, txn, clock, writes>>
    /\ UNCHANGED EditsFrame

\* db.commit(), last_insert_rowid() and the redirect, lines 595-599.
AutoAddCommit ==
  \E p \in Procs :
    /\ conn[p].pc = "commit"
    /\ txn.owner = p
    /\ books' = txn.books
    /\ locs' = txn.locs
    /\ txn' = NoTxn
    /\ conn' = [conn EXCEPT ![p] =
                  [pc |-> "done", resp |-> ToBook(Len(txn.books))]]
    /\ UNCHANGED <<clock, writes>>
    /\ UNCHANGED EditsFrame

\* An empty catalog in a migrated store.
InitAutoAdds ==
  /\ tables = RequiredTables
  /\ bookCols = {"id"} \cup RequiredBookCols
  /\ indexes = RequiredIndexes
  /\ users = <<<<"a", "d", "m", "i", "n">>, <<"b">>>>
  /\ books = <<>>
  /\ locs = <<>>
  /\ mig = [pc |-> "done", k |-> 1, run |-> 1, crashed |-> FALSE]
  /\ start = Store
  /\ snap = Store
  /\ res = NoCall
  /\ clock = 0
  /\ writes = 0
  /\ last = NoRequest
  /\ txn = NoTxn
  /\ conn = [p \in Procs |-> Idle]

NextAutoAdds ==
  \/ AutoAddCheck
  \/ AutoAddFetch
  \/ AutoAddInsert
  \/ AutoAddLocked
  \/ AutoAddCommit
  \/ EditRespond
  \/ EditTick

SpecAutoAdds == InitAutoAdds /\ [][NextAutoAdds]_vars

-----------------------------------------------------------------------------
(* The application started on a store an earlier version left: line 152    *)
(* runs the migration, then the routes are served.                         *)

AppUsers ==
  {<<<<"a", "d", "m", "i", "n">>, <<"b">>>>, <<<<"b">>, <<"c">>>>}

AppOwners == {NullId, 2}

\* The store has users and books, rows of books with and without owner, and
\* no book_locations table yet.
InitApp ==
  /\ tables = {"users", "books"}
  /\ bookCols = {"id"} \cup RequiredBookCols
  /\ indexes = {}
  /\ users \in AppUsers
  /\ books \in UNION {[1..n -> {[LegacyBook(u) EXCEPT !.status = Unread] :
                                  u \in AppOwners}] :
                       n \in 0..MaxLegacyBooks}
  /\ locs = <<>>
  /\ mig = [pc |-> "users", k |-> 1, run |-> 0, crashed |-> FALSE]
  /\ start = Store
  /\ snap = NoSnap
  /\ res = NoCall
  /\ clock = 0
  /\ writes = 0
  /\ last = NoRequest
  /\ txn = NoTxn
  /\ conn = NoConn

NextApp ==
  \/ MigCreateUsers
  \/ MigCreateBooks
  \/ MigAddColumn
  \/ MigCreateLocations
  \/ MigCreateIndexBook
  \/ MigCreateIndexUser
  \/ MigCommit
  \/ MigRepair
  \/ MigRepairCommit
  \/ IndexRequest
  \/ AddGetRequest
  \/ AddPostRequest
  \/ BookRequest
  \/ EditGetRequest
  \/ EditPostRequest
  \/ ScanRequest
  \/ ScanAutoAddRequest
  \/ ResponseSent
  \/ SecondPasses

SpecApp == InitApp /\ [][NextApp]_vars

-----------------------------------------------------------------------------
(* Properties of the resolver.                                             *)

\* s with all hyphens removed and surrounding whitespace trimmed.
HyphenFreeTrimmed(s) == Strip(SelectSeq(s, LAMBDA c : c # "-"))

\* C7: a call with s returns the same result and issues the same requests
\* as a call with the hyphen-free trimmed form of s under the same
\* provider behaviour, and a returned record's isbn is that form.
C7_NormalizedEquivalent ==
  res.called =>
    /\ res.ret = Fetch(HyphenFreeTrimmed(res.isbn), res.env)
    /\ res.ret.out # NoMeta => res.ret.out.isbn = HyphenFreeTrimmed(res.isbn)

\* A call with hyphens and whitespace around the ISBN returned a record.
C7_Witness ==
  /\ res.called
  /\ res.isbn = <<"-", " ", "9">>
  /\ res.ret.out # NoMeta
  /\ res.ret.out.isbn = <<"9">>

\* The title each provider yields for the ISBN n: the stripped title of
\* A's record, of the first item of B's result; empty when there is none.
ProviderATitle(env, n) ==
  LET a == OLLookup(env, n)
  IN  IF a.kind = "ok" THEN Strip(a.title) ELSE <<>>
ProviderBTitle(env, n) ==
  LET b == GBLookup(env, n)
  IN  IF b.kind = "ok" /\ b.items # <<>> THEN Strip(b.items[1].title)
      ELSE <<>>

AskedA == res.called /\ res.ret.reqs # <<>>
AskedB ==
  res.called /\ \E i \in DOMAIN res.ret.reqs :
                  res.ret.reqs[i].to = "googlebooks"
AnswerA == OLLookup(res.env, HyphenFreeTrimmed(res.isbn))
TitleA == ProviderATitle(res.env, HyphenFreeTrimmed(res.isbn))
TitleB == ProviderBTitle(res.env, HyphenFreeTrimmed(res.isbn))

\* C8: when Provider A answers a parseable record without a title, Provider
\* B is asked and its record is returned if it has a title; whatever
\* happens the resolver returns None or a record with a non-empty title,
\* and None only if neither provider yielded a non-empty title.
C8_FallsThroughToB ==
  res.called =>
    /\ (AskedA /\ AnswerA.kind = "ok" /\ TitleA = <<>>) =>
         /\ AskedB
         /\ TitleB # <<>> =>
              /\ res.ret.out # NoMeta
              /\ res.ret.out.source = SrcGoogleBooks
              /\ res.ret.out.title = TitleB
    /\ res.ret.out # NoMeta => res.ret.out.title # <<>>
    /\ (AskedA /\ res.ret.out = NoMeta) => (TitleA = <<>> /\ TitleB = <<>>)

\* Provider A answered a record whose title is blank, Provider B a titled
\* one, and the resolver returned B's.
C8_Witness ==
  /\ AskedA
  /\ AnswerA.kind = "ok"
  /\ AnswerA.title = <<" ">>
  /\ AskedB
  /\ res.ret.out # NoMeta
  /\ res.ret.out.source = SrcGoogleBooks
  /\ res.ret.out.title = <<"G">>

\* C16: the providers are asked one after the other.  Provider B is asked
\* at most once, after every request to Provider A, and only when A's
\* attempt yielded no title; when A yields a title the record is A's and B
\* is not asked.
C16_ProvidersInSequence ==
  res.called =>
    LET reqs == res.ret.reqs
        toB == {i \in DOMAIN reqs : reqs[i].to = "googlebooks"}
    IN  /\ Cardinality(toB) <= 1
        /\ \A i \in toB :
             /\ i = Len(reqs)
             /\ i > 1
             /\ reqs[1].to = "openlibrary"
             /\ TitleA = <<>>
        /\ (HyphenFreeTrimmed(res.isbn) # <<>> /\ TitleA # <<>>) =>
             /\ toB = {}
             /\ res.ret.out # NoMeta
             /\ res.ret.out.source = SrcOpenLibrary

\* Provider A answered an untitled record with two authors to look up;
\* Provider B was asked after the three requests to A and its record
\* returned.
C16_Witness ==
  /\ res.called
  /\ Len(res.ret.reqs) = 4
  /\ res.ret.reqs[1].to = "openlibrary"
  /\ res.ret.reqs[2].to = "openlibrary/author"
  /\ res.ret.reqs[3].to = "openlibrary/author"
  /\ res.ret.reqs[4].to = "googlebooks"
  /\ TitleA = <<>>
  /\ res.ret.out # NoMeta
  /\ res.ret.out.source = SrcGoogleBooks

\* The author entry has a key, its lookup answered, and the name it
\* answered is not blank.
AuthorFetched(a) ==
  a.key # NULL /\ a.resp.kind = "ok" /\ Strip(a.resp.name) # <<>>

\* The names, trimmed, of the entries of as that were fetched, in the order
\* of as.
RECURSIVE FetchedNames(_, _)
FetchedNames(as, i) ==
  IF i > Len(as) THEN <<>>
  ELSE (IF AuthorFetched(as[i]) THEN <<Strip(as[i].resp.name)>> ELSE <<>>)
         \o FetchedNames(as, i + 1)

\* C17: when Provider A's record has a title, the resolver returns A's
\* record whichever of the author lookups fail, and its authors are the
\* names of the authors that were fetched with a name, in the record's
\* order, joined with ", " (the empty text if there is none).
C17_AuthorFailuresTolerated ==
  (/\ res.called
   /\ HyphenFreeTrimmed(res.isbn) # <<>>
   /\ TitleA # <<>>) =>
     /\ res.ret.out # NoMeta
     /\ res.ret.out.source = SrcOpenLibrary
     /\ res.ret.out.title = TitleA
     /\ res.ret.out.authors = Join(FetchedNames(AnswerA.authors, 1))

\* Provider A's titled record names two authors; the lookup of the first
\* failed, the second was fetched, and the record returned names the
\* second alone.
C17_Witness ==
  /\ res.called
  /\ TitleA # <<>>
  /\ Len(AnswerA.authors) = 2
  /\ AnswerA.authors[1].key # NULL
  /\ AnswerA.authors[1].resp.kind = "error"
  /\ AuthorFetched(AnswerA.authors[2])
  /\ res.ret.out # NoMeta
  /\ res.ret.out.source = SrcOpenLibrary
  /\ res.ret.out.authors = <<"A">>

-----------------------------------------------------------------------------
(* Properties of the catalog.  A step that serves a request leaves the     *)
(* request and its response in last'; the store before it is the unprimed  *)
(* one.                                                                    *)

\* The caller of the request owns a Book with the code as submitted
\* (surrounding whitespace apart) as its ISBN.
OwnsIsbn(u, raw) ==
  \E i \in DOMAIN books :
    books[i].user_id = u /\ books[i].isbn = Strip(raw)

\* C4: an accepted Update (the caller's own Book, a non-empty title)
\* appends no LocationEvent when the submitted location, trimmed, is empty
\* or equals the Book's current location, and otherwise appends exactly
\* one, with the Book's id, the caller's id and the new location.
C4_LocationEventOnChange ==
  [][(/\ last'.op = "edit_post"
      /\ last'.id \in DOMAIN books
      /\ books[last'.id].user_id = last'.user
      /\ Strip(last'.form.title) # <<>>) =>
       LET submitted == Strip(last'.form.location)
           current == OrEmpty(books[last'.id].location)
       IN  IF submitted = <<>> \/ submitted = current
           THEN locs' = locs
           ELSE /\ Len(locs') = Len(locs) + 1
                /\ SubSeq(locs', 1, Len(locs)) = locs
                /\ locs'[Len(locs')].book_id = last'.id
                /\ locs'[Len(locs')].user_id = last'.user
                /\ locs'[Len(locs')].location = submitted]_vars

\* An Update that submitted a padded location other than the Book's has
\* appended the LocationEvent with the trimmed location.
C4_Witness ==
  /\ last.op = "edit_post"
  /\ last.resp = ToBook(last.id)
  /\ last.form.location = <<" ", "a">>
  /\ Len(locs) = last.nlocs + 1
  /\ locs[Len(locs)].location = <<"a">>

\* C5: an auto-add with a code the caller already owns a Book for redirects
\* to such a Book, asks no provider and creates no row.
C5_DuplicateRedirects ==
  [][(/\ last'.op = "scan_auto_add"
      /\ Strip(last'.code) # <<>>
      /\ OwnsIsbn(last'.user, last'.code)) =>
       /\ \E i \in DOMAIN books :
            /\ books[i].user_id = last'.user
            /\ books[i].isbn = Strip(last'.code)
            /\ last'.resp = ToBook(i)
       /\ last'.reqs = <<>>
       /\ books' = books
       /\ locs' = locs]_vars

\* An auto-add of a code the caller owns was redirected to the Book.
C5_Witness ==
  /\ last.op = "scan_auto_add"
  /\ last.code = <<" ", "9">>
  /\ last.resp.status = 302
  /\ last.resp.to = "book"
  /\ last.resp.book_id <= last.nbooks
  /\ last.reqs = <<>>
  /\ Len(books) = last.nbooks

\* An auto-add of a code the caller does not own yet, for which neither
\* provider yields a title.
AutoAddFails ==
  /\ last'.op = "scan_auto_add"
  /\ Strip(last'.code) # <<>>
  /\ ~OwnsIsbn(last'.user, last'.code)
  /\ ProviderATitle(last'.env, HyphenFreeTrimmed(last'.code)) = <<>>
  /\ ProviderBTitle(last'.env, HyphenFreeTrimmed(last'.code)) = <<>>

ReturnsOnlyOwn ==
  /\ last.op \in {"index", "scan"} =>
       \A k \in DOMAIN last.resp.data :
         last.resp.data[k].row.user_id = last.user
  /\ (last.op \in {"book", "edit_get"} /\ last.resp # NotFound) =>
       last.resp.data.b.row.user_id = last.user
  /\ (last.op = "book" /\ last.resp # NotFound) =>
       \A k \in DOMAIN last.resp.data.history :
         locs[last.resp.data.history[k].id].user_id = last.user
  /\ (last.op \in {"edit_post", "scan_auto_add"}
        /\ last.resp.status = 302 /\ last.resp.to = "book") =>
       books[last.resp.book_id].user_id = last.user

\* C9: a request served for user U returns only U's Books and
\* LocationEvents and changes no Book or LocationEvent of another user.
C9_OwnerIsolation ==
  [][last'.op # "none" =>
       /\ ReturnsOnlyOwn'
       /\ \A i \in DOMAIN books :
            books[i].user_id # last'.user =>
              i \in DOMAIN books' /\ books'[i] = books[i]
       /\ \A i \in DOMAIN locs :
            locs[i].user_id # last'.user =>
              i \in DOMAIN locs' /\ locs'[i] = locs[i]]_vars

\* Both users own a Book, and the unfiltered list of one of them shows
\* that user's Book alone.
C9_Witness ==
  /\ last.op = "index"
  /\ last.q = <<>>
  /\ Len(last.resp.data) = 1
  /\ Len(books) = 2
  /\ \E i \in DOMAIN books : books[i].user_id # last.user

\* C10: a detail or edit request, GET or POST, for a Book of another user
\* is answered as one for an id that does not exist, with the not-found
\* response, and leaves the store as it was.
C10_ForeignBookNotFound ==
  [][(/\ last'.op \in {"book", "edit_get", "edit_post"}
      /\ \/ last'.id \notin DOMAIN books
         \/ books[last'.id].user_id # last'.user) =>
       /\ last'.resp = NotFound
       /\ books' = books
       /\ locs' = locs]_vars

\* An edit POST with a valid form for another user's Book was answered
\* not found.
C10_Witness ==
  /\ last.op = "edit_post"
  /\ last.id \in DOMAIN books
  /\ books[last.id].user_id # last.user
  /\ Strip(last.form.title) # <<>>
  /\ Strip(last.form.location) # <<>>
  /\ last.resp = NotFound

\* The text holds q as a substring, letters compared without case; a NULL
\* column holds nothing.
Contains(text, q) ==
  /\ text # NULL
  /\ \E k \in 0..(Len(text) - Len(q)) :
       \A j \in 1..Len(q) : Fold(text[k + j]) = Fold(q[j])

\* C11: the list of user U under the filter q holds exactly U's Books whose
\* title, authors, tags or ISBN contains q without regard to case (all of
\* U's Books when q is empty), each once, by updated_at descending and, for
\* equal updated_at, id descending.  q is taken without its surrounding
\* whitespace.
C11_ListFilterOrder ==
  last.op = "index" =>
    LET q == Strip(last.q)
        rows == last.resp.data
        wanted == {i \in DOMAIN books :
                     /\ books[i].user_id = last.user
                     /\ \/ q = <<>>
                        \/ Contains(books[i].title, q)
                        \/ Contains(books[i].authors, q)
                        \/ Contains(books[i].tags, q)
                        \/ Contains(books[i].isbn, q)}
    IN  /\ {rows[k].id : k \in DOMAIN rows} = wanted
        /\ Len(rows) = Cardinality(wanted)
        /\ \A k \in DOMAIN rows : rows[k].row = books[rows[k].id]
        /\ \A k, l \in DOMAIN rows :
             k < l =>
               \/ rows[k].row.updated_at > rows[l].row.updated_at
               \/ /\ rows[k].row.updated_at = rows[l].row.updated_at
                  /\ rows[k].id > rows[l].id

\* C12: an add POST, or an edit POST for a Book of the caller, whose title
\* is empty after trimming gets the form again and changes no Book and no
\* LocationEvent; and no Book in the store has an empty title.
C12_EmptyTitleRejected ==
  [][/\ (last'.op = "add_post" /\ Strip(last'.form.title) = <<>>) =>
          /\ last'.resp.status = 200
          /\ last'.resp.page = "add"
          /\ books' = books
          /\ locs' = locs
     /\ (/\ last'.op = "edit_post"
         /\ last'.id \in DOMAIN books
         /\ books[last'.id].user_id = last'.user
         /\ Strip(last'.form.title) = <<>>) =>
          /\ last'.resp.status = 200
          /\ last'.resp.page = "edit"
          /\ books' = books
          /\ locs' = locs
     /\ \A i \in DOMAIN books' :
          books'[i].title # NULL /\ Strip(books'[i].title) # <<>>]_vars

\* An edit POST with a blank title and a new location for the caller's
\* Book got the form again, and the Book kept its location.
C12_Witness ==
  /\ last.op = "edit_post"
  /\ Strip(last.form.title) = <<>>
  /\ last.form.location = <<"b">>
  /\ last.resp.status = 200
  /\ last.resp.page = "edit"
  /\ last.id \in DOMAIN books
  /\ books[last.id].user_id = last.user
  /\ books[last.id].location # <<"b">>
  /\ Len(locs) = last.nlocs

\* No two of user u's rows of bs store the same ISBN.
OwnIsbnsDistinct(bs, u) ==
  \A i, j \in DOMAIN bs :
    (/\ i # j
     /\ bs[i].user_id = u
     /\ bs[j].user_id = u
     /\ bs[i].isbn # NULL) => bs[i].isbn # bs[j].isbn

\* C22: an auto-add call, whatever code it is given, hyphenated or not,
\* leaves its user without two Books of the same stored ISBN if the user
\* had no two such Books before it; so no sequence of auto-add calls
\* creates a duplicate.
C22_AutoAddKeepsIsbnsDistinct ==
  [][(/\ last'.op = "scan_auto_add"
      /\ OwnIsbnsDistinct(books, last'.user)) =>
       OwnIsbnsDistinct(books', last'.user)]_vars

-----------------------------------------------------------------------------
(* Properties of edit requests served side by side.                        *)

\* C18: the store that other operations see changes only when an Update
\* commits, and then by all of the Update at once: the Book's new fields
\* with the new updated_at and, if the Update inserted one, its
\* LocationEvent.  An Update that dies before its commit changes nothing.
C18_UpdateCommitsAsOne ==
  [][(books' # books \/ locs' # locs) =>
       \E p \in Procs :
         /\ conn[p].pc = "commit"
         /\ conn'[p].pc = "done"
         /\ conn'[p].resp = ToBook(conn[p].id)
         /\ txn.owner = p
         /\ books' = txn.books
         /\ locs' = txn.locs
         /\ books'[conn[p].id].title = Strip(conn[p].form.title)
         /\ books'[conn[p].id].location = OrNull(Strip(conn[p].form.location))
         /\ LocationChanged(conn[p].old_location,
                            Strip(conn[p].form.location)) =>
              /\ Len(locs') = Len(locs) + 1
              /\ locs'[Len(locs')].book_id = conn[p].id
              /\ locs'[Len(locs')].location = Strip(conn[p].form.location)]_vars

\* One Update died after its UPDATE and INSERT and left nothing; another
\* was committed, and the store holds its location and its LocationEvent.
C18_Witness ==
  \E p, q \in Procs :
    /\ conn[p].pc = "done"
    /\ conn[p].resp = Failed("died")
    /\ conn[q].pc = "done"
    /\ conn[q].resp = ToBook(1)
    /\ Len(locs) = 1
    /\ books[1].location = locs[1].location

\* C20: however Updates of one Book are interleaved, an Update that commits
\* has appended a LocationEvent exactly if the location it commits is not
\* empty and differs from the location the Book had in the store
\* immediately before the Update's write.  (The Update holds the write
\* lock from its write to its commit, so that location is the one in the
\* store when it commits.)
C20_EventIffLocationChanges ==
  [][\A p \in Procs :
       (/\ conn[p].pc = "commit"
        /\ conn'[p].pc = "done"
        /\ conn'[p].resp = ToBook(conn[p].id)) =>
         LET new == Strip(conn[p].form.location)
             before == OrEmpty(books[conn[p].id].location)
         IN  (Len(locs') = Len(locs) + 1) <=> (new # <<>> /\ new # before)]_vars

-----------------------------------------------------------------------------
(* Properties of auto-add requests served side by side.                    *)

\* C21: however auto-add requests are interleaved, when one of them
\* commits its insert the store holds at most one Book of its user with
\* the ISBN it submitted.
C21_OneBookPerIsbn ==
  [][\A p \in Procs :
       (conn[p].pc = "commit" /\ conn'[p].pc = "done") =>
         Cardinality({i \in DOMAIN books' :
                        /\ books'[i].user_id = conn[p].user
                        /\ books'[i].isbn = conn[p].code}) <= 1]_vars

-----------------------------------------------------------------------------
(* Properties of the application.                                          *)

\* C19: no step deletes or changes a LocationEvent, deletes a Book or
\* changes a Book's owner, except that the migration's repair gives a Book
\* without owner to admin; so no list, detail, add, edit, scan or auto-add
\* request does any of these.
C19_EventsAndOwnersKept ==
  [][/\ Len(locs') >= Len(locs)
     /\ SubSeq(locs', 1, Len(locs)) = locs
     /\ Len(books') >= Len(books)
     /\ \A i \in DOMAIN books :
          books'[i].user_id # books[i].user_id =>
            /\ mig.pc = "repair_commit"
            /\ last = NoRequest
            /\ books[i].user_id = NullId
            /\ users[books'[i].user_id] = <<"a", "d", "m", "i", "n">>]_vars

\* A Book that had no owner was given to admin by the repair, and an edit
\* by admin moved it: the move is recorded, the Book is still admin's.
C19_Witness ==
  /\ last.op = "edit_post"
  /\ last.resp = ToBook(last.id)
  /\ last.id \in DOMAIN start.books
  /\ start.books[last.id].user_id = NullId
  /\ books[last.id].user_id = last.user
  /\ Len(locs) = last.nlocs + 1
  /\ \E i \in DOMAIN start.books : start.books[i].user_id = 2

-----------------------------------------------------------------------------
(* Properties of the migration.                                            *)

\* C1: once the first run of init_db_and_migrate has ended, the store
\* (tables, columns, indexes, rows and their owners) stays what that run
\* left: a second run changes nothing, at any of its steps.
C1_MigrateIdempotent == mig.run >= 1 => Store = snap

\* The second run has completed on a store whose first run added columns
\* to an existing books table and repaired an owner.
C1_Witness ==
  /\ mig.run >= 2
  /\ mig.pc = "done"
  /\ "books" \in start.tables
  /\ start.bookCols # bookCols
  /\ start.books # books

\* C2: when init_db_and_migrate completes, the three tables exist and
\* every required column of books is present.
C2_AllColumnsPresent ==
  mig.pc = "done" =>
    /\ RequiredTables \subseteq tables
    /\ RequiredBookCols \subseteq bookCols

\* C3: on a store with a user named admin, after the first run every Book
\* whose owner was null is owned by admin and every other Book has the
\* owner it had.
C3_OrphansGoToAdmin ==
  (mig.run = 1 /\ mig.pc \in {"done", "aborted"}
     /\ AdminId(start.users) # NullId) =>
    \A i \in DOMAIN start.books :
      books[i].user_id =
        IF start.books[i].user_id = NullId
        THEN AdminId(start.users)
        ELSE start.books[i].user_id

\* The schema of the store.
SchemaNow == [tables |-> tables, bookCols |-> bookCols, indexes |-> indexes]

\* C13: every change of a run is in the store when the next one begins, so
\* a run that completes after an interrupted run leaves the schema that an
\* uninterrupted run leaves of the same initial store.
C13_InterruptedRunRecovers ==
  (mig.pc = "done" /\ mig.crashed) => SchemaNow = MigratedSchema(start)

\* C14: when a run has completed, both indexes of book_locations exist,
\* also where the table was there before without them.
C14_IndexesExist ==
  mig.pc = "done" => RequiredIndexes \subseteq indexes

\* Nobody in the store is named admin.
NoAdmin ==
  \A i \in DOMAIN users : users[i] # <<"a", "d", "m", "i", "n">>

\* C15: in a store without a user named admin the migration changes the
\* owner of no Book: a null owner stays null, every other owner stays as
\* it is.
C15_NoAdminNoRepair ==
  NoAdmin =>
    /\ DOMAIN books = DOMAIN start.books
    /\ \A i \in DOMAIN books : books[i].user_id = start.books[i].user_id

\* A run has completed on a store with a user not named admin, a Book
\* without owner and a Book of that user.
C15_Witness ==
  /\ NoAdmin
  /\ users # <<>>
  /\ mig.pc = "done"
  /\ \E i \in DOMAIN books : books[i].user_id = NullId
  /\ \E i \in DOMAIN books : books[i].user_id # NullId

=============================================================================
